---- MODULE Spec2Model ----
(***************************************************************************)
(* The danmaku rendering engine (class DanmakuEngine, src/README.md        *)
(* lines 61-304): lane (track) table, element pool, admission by first-fit *)
(* scan, timer-driven recycling, and the facade operations setEnabled,     *)
(* setOpacity, setSpeed, clear and the resize listener.                    *)
(*                                                                         *)
(* Time is in milliseconds (Date.now()), lengths in CSS pixels, speed in   *)
(* pixels per second.  A CSS property that may be the empty string         *)
(* (transform, top, opacity) is a sequence: << >> for '' and <<v>> for a   *)
(* value.  Pool slots are numbered 1..Len(danmakuPool) in pool order;      *)
(* tracks are numbered 0..numTracks-1 as in the source.                    *)
(***************************************************************************)
EXTENDS Integers, Sequences, FiniteSets, TLC

\* ------------------------------------------------------------------ bounds
\* Last clock value the model explores.
MaxTime == 21
\* Most recycle timers pending at once.
MaxTimers == 2
\* Number of elements createPool creates.  The source sets 50
\* (src/README.md:86); the model scales it down so that an exhausted pool,
\* hence pool growth, is reachable.
poolSize == 1

\* Number of automatic reconnects in a row.  The source sets 10
\* (src/README.md:402 and :790); the model scales it down so that the limit
\* is reached.
maxReconnectAttempts == 2
\* Most calls of connect() the model explores.
MaxConnects == 4

\* --------------------------------------------------------- program constants
trackHeight == 30
trackGap == 5
baseSpeed == 100
\* Delay of the reconnect timeout, in milliseconds.
reconnectInterval == 3000

\* -------------------------------------------------------------- input sets
\* container.clientHeight values: 0, 1 and 2 tracks (the last two not
\* multiples of the track pitch, so that Math.floor matters).
Heights == {0, 40, 75}
\* container.clientWidth values.
Widths == {1}
\* danmaku.content values.
Contents == {"a"}
\* setSpeed arguments, in halves: 1 and 2 (within the documented range
\* 0.5 - 2.0).
HalfMultipliers == {2, 4}
\* The wider input sets of SpecTiming: two container widths, the empty
\* content, and the multipliers 0.5, 1 and 2.
TimingWidths == {1, 2}
TimingContents == {"", "a"}
TimingHalfMultipliers == {1, 2, 4}
AnyHalfMultipliers == {-2, 0, 2}
\* Server message types the clients' handlers distinguish by state.
MessageTypes == {"auth_success", "heartbeat", "danmaku"}
\* Texts typed into the input: sequences of characters, blank ones included.
Inputs == {<< >>, <<" ">>, <<"a">>, <<" ", "a", " ">>}
\* Advances of the host clock between two events, in milliseconds.
Steps == {10, 20}
\* setOpacity arguments, in percent.
Opacities == {50, 100}

VARIABLES
    now,              \* Date.now()
    containerHeight,  \* container.clientHeight
    containerWidth,   \* container.clientWidth
    numTracks,        \* this.numTracks
    trackStatus,      \* this.trackStatus : 0..numTracks-1 -> end time
    danmakuPool,      \* this.danmakuPool : sequence of elements
    timers,           \* pending setTimeout callbacks, in creation order
    speed,            \* this.speed
    opacity,          \* this.opacity (percent)
    enabled,          \* this.enabled
    reservations,     \* history: admissions since the last lane reset
    maxInFlight,      \* history: most elements ever visible at once
    lastOp,           \* history: the kind of operation that produced this state
    \* The page that loads the engine script (src/README.md lines 306-370).
    readyState,       \* document.readyState
    layerParsed,      \* document.getElementById('danmakuLayer') finds the container
    scriptRun,        \* the engine script was evaluated (globals and listener exist)
    dclFired,         \* DOMContentLoaded was dispatched
    danmakuEngine,    \* the global danmakuEngine: 0 for null, else the engine's number
    constructed,      \* history: number of DanmakuEngine objects constructed
    orphaned,         \* history: comments visible on engines no longer addressed
    \* The WebSocket client (class DanmakuClient, lines 384-708, and the
    \* composable useWebSocket, lines 782-1032).
    variant,          \* which of the two clients this is
    ws,               \* this.ws: "null", or the readyState of the socket
    isConnected,      \* this.isConnected
    isAuthenticated,  \* this.isAuthenticated
    reconnectEnabled, \* this.reconnectEnabled (DanmakuClient only)
    reconnectAttempts,\* this.reconnectAttempts
    reconnectTimer,   \* this.reconnectTimer: "null", or the state of the timer it names
    reconnectQueue,   \* armed reconnect timeouts: their delays, in creation order
    heartbeatTimer,   \* this.heartbeatTimer is not null
    heartbeats,       \* number of running heartbeat intervals
    authTimers,       \* number of armed sendAuth timeouts
    connects,         \* history: number of calls of connect()
    disconnected,     \* history: disconnect() was called
    authReceived,     \* history: the current socket delivered auth_success
    wire,             \* what the last step put on the socket, "none" if nothing
    returned,         \* what the last call of sendDanmaku returned, "none" otherwise
    rendered          \* the last step handed a comment to the renderer

engine == <<numTracks, trackStatus, danmakuPool, timers, speed, opacity, enabled>>
pageVars == <<readyState, layerParsed, scriptRun, dclFired, danmakuEngine,
              constructed, orphaned>>
clientVars == <<variant, ws, isConnected, isAuthenticated, reconnectEnabled,
                reconnectAttempts, reconnectTimer, reconnectQueue,
                heartbeatTimer, heartbeats, authTimers, connects, disconnected,
                authReceived, wire, returned, rendered>>
engineVars == <<now, containerHeight, containerWidth, numTracks, trackStatus,
                danmakuPool, timers, speed, opacity, enabled,
                reservations, maxInFlight, lastOp>>
vars == <<engineVars, pageVars, clientVars>>

\* ----------------------------------------------------------------- helpers
\* An element as createPool leaves it: display 'none', everything else unset.
PoolElement ==
    [display |-> "none", transform |-> << >>, content |-> "",
     opacity |-> << >>, top |-> << >>]

\* An element as getDanmakuElement creates it: display is not set.
FreshElement ==
    [display |-> "", transform |-> << >>, content |-> "",
     opacity |-> << >>, top |-> << >>]

\* new Array(n).fill(0)
ZeroTracks(n) == [i \in 0 .. n - 1 |-> 0]

\* Faulty track count: Math.ceil in place of Math.floor.
TrackCountCeil(h) ==
    (h + trackHeight + trackGap - 1) \div (trackHeight + trackGap)

\* Math.floor(containerHeight / (trackHeight + trackGap))
TrackCount(h) == h \div (trackHeight + trackGap)

\* createPool: poolSize hidden elements.
createPool == [i \in 1 .. poolSize |-> PoolElement]

\* The for loop of add: the first track i, from index i0 on, with
\* t >= status[i]; -1 when the loop runs out.
RECURSIVE ScanTracks(_, _, _, _)
ScanTracks(i0, n, status, t) ==
    IF i0 >= n THEN -1
    ELSE IF t >= status[i0] THEN i0
    ELSE ScanTracks(i0 + 1, n, status, t)

\* Faulty scans, each the scan of add with one slip.
\* The availability test left out: track 0 is always taken.
FindTrackUnchecked(n, status, t) == IF n > 0 THEN 0 ELSE -1

\* The scan run from the bottom: the last available track.
FindTrackLastFit(n, status, t) ==
    LET free == {i \in 0 .. n - 1 : t >= status[i]}
    IN  IF free = {} THEN -1 ELSE CHOOSE i \in free : \A j \in free : j <= i

\* No "full" result: track 0 when the loop runs out.
FindTrackNeverFull(n, status, t) ==
    IF ScanTracks(0, n, status, t) = -1 /\ n > 0 THEN 0
    ELSE ScanTracks(0, n, status, t)

\* now > trackStatus[i] in place of now >= trackStatus[i].
FindTrackStrict(n, status, t) ==
    LET free == {i \in 0 .. n - 1 : t > status[i]}
    IN  IF free = {} THEN -1 ELSE CHOOSE i \in free : \A j \in free : i <= j

FindTrack(n, status, t) == ScanTracks(0, n, status, t)

\* Array.prototype.find(e => e.style.display === 'none'): the index of the
\* first hidden element from index i0 on, 0 when there is none.
\* Faulty search: the last hidden element of the pool instead of the first.
RECURSIVE FindHiddenLast(_, _)
FindHiddenLast(pool, i0) ==
    IF i0 > Len(pool) THEN 0
    ELSE LET later == FindHiddenLast(pool, i0 + 1)
         IN  IF later # 0 THEN later
             ELSE IF pool[i0].display = "none" THEN i0 ELSE 0

RECURSIVE FindHidden(_, _)
FindHidden(pool, i0) ==
    IF i0 > Len(pool) THEN 0
    ELSE IF pool[i0].display = "none" THEN i0
    ELSE FindHidden(pool, i0 + 1)

\* Faulty getDanmakuElement: a new element on every call, no reuse.
getDanmakuElementNoReuse(pool) ==
    [pool |-> Append(pool, FreshElement), el |-> Len(pool) + 1]

\* Faulty getDanmakuElement: a pool of fixed size, the first element is taken
\* over when none is hidden.
getDanmakuElementFixedPool(pool) ==
    LET found == FindHidden(pool, 1)
    IN  [pool |-> pool, el |-> IF found # 0 THEN found ELSE 1]

\* getDanmakuElement: the pool after the call and the index of the element
\* returned.
getDanmakuElement(pool) ==
    LET found == FindHidden(pool, 1)
    IN  IF found # 0 THEN [pool |-> pool, el |-> found]
        ELSE [pool |-> Append(pool, FreshElement), el |-> Len(pool) + 1]

\* Faulty recycleDanmakuElement: the element is emptied and stays displayed.
recycleKeepsDisplay(e) == [e EXCEPT !.transform = << >>, !.content = ""]

\* recycleDanmakuElement(el)
recycleDanmakuElement(e) ==
    [e EXCEPT !.display = "none", !.transform = << >>, !.content = ""]

\* measureText: the rendered width of the text (one pixel per character of
\* the modelled contents, 0 for the empty string).
measureText(text) == IF text = "" THEN 0 ELSE 1

\* Faulty duration: seconds, the factor 1000 left out.
DurationInSeconds(totalDistance, s) == totalDistance \div s

\* The double Infinity, above every clock value and every finite sum.
Infinity == 1000000

\* duration = (totalDistance / speed) * 1000.  For the modelled speeds
\* (-100, 50, 100, 200) the quotient 1000 / speed is an integer, and the
\* double arithmetic of the source is exact; a positive distance divided by
\* speed 0 is Infinity (container widths are positive, so 0 / 0 does not
\* occur).
Duration(totalDistance, s) ==
    IF s = 0 THEN Infinity ELSE (totalDistance * 1000) \div s

\* Faulty end time: the duration alone, the admission time left out.
EndTimeDurationOnly(t, duration) == duration

\* now + duration in double arithmetic.
EndTime(t, duration) == IF duration = Infinity THEN Infinity ELSE t + duration

\* The delay setTimeout applies: an infinite delay converts to 0 and a
\* negative one is clamped to 0.
TimerDelay(duration) ==
    IF duration = Infinity \/ duration < 0 THEN 0 ELSE duration

\* Faulty forEach: the last element of the pool is skipped.
HideAllButLast(pool) ==
    [i \in 1 .. Len(pool) |->
        IF i < Len(pool) THEN [pool[i] EXCEPT !.display = "none"] ELSE pool[i]]

\* this.danmakuPool.forEach(el => el.style.display = 'none')
HideAll(pool) == [i \in 1 .. Len(pool) |-> [pool[i] EXCEPT !.display = "none"]]

\* Number of visible elements.
InFlight(pool) == Cardinality({i \in 1 .. Len(pool) : pool[i].display = "block"})

\* The pending timer the event loop runs next: the earliest due time, the
\* earliest created among equals; it can run once its due time is reached.
NextTimer(i) ==
    /\ i \in 1 .. Len(timers)
    /\ now >= timers[i].due
    /\ \A j \in 1 .. Len(timers) :
          \/ timers[j].due > timers[i].due
          \/ (timers[j].due = timers[i].due /\ j >= i)

RemoveAt(s, i) == [k \in 1 .. Len(s) - 1 |-> IF k < i THEN s[k] ELSE s[k + 1]]

\* ------------------------------------------------------- page and client
\* The two WebSocket clients of the repository.
Variants == {"DanmakuClient", "useWebSocket"}

\* The page after loading in the usual order: the script ran while the
\* document was loading, DOMContentLoaded constructed the one engine.
PageLoaded ==
    /\ readyState = "complete"
    /\ layerParsed = TRUE
    /\ scriptRun = TRUE
    /\ dclFired = TRUE
    /\ danmakuEngine = 1
    /\ constructed = 1
    /\ orphaned = 0

\* A client after its constructor (new DanmakuClient(), useWebSocket()).
ClientConstructed(variants) ==
    /\ variant \in variants
    /\ ws = "null"
    /\ isConnected = FALSE
    /\ isAuthenticated = FALSE
    /\ reconnectEnabled = TRUE
    /\ reconnectAttempts = 0
    /\ reconnectTimer = "null"
    /\ reconnectQueue = << >>
    /\ heartbeatTimer = FALSE
    /\ heartbeats = 0
    /\ authTimers = 0
    /\ connects = 0
    /\ disconnected = FALSE
    /\ authReceived = FALSE
    /\ wire = "none"
    /\ returned = "none"
    /\ rendered = FALSE

\* -------------------------------------------------------------------- Init
\* The state after new DanmakuEngine(container): constructor and init(),
\* for a container of one of the given heights and widths.
EngineInit(heights, widths) ==
    /\ now = 1
    /\ containerHeight \in heights
    /\ containerWidth \in widths
    /\ numTracks = TrackCount(containerHeight)
    /\ trackStatus = ZeroTracks(TrackCount(containerHeight))
    /\ danmakuPool = createPool
    /\ timers = << >>
    /\ speed = baseSpeed
    /\ opacity = 100
    /\ enabled = TRUE
    /\ reservations = {}
    /\ maxInFlight = 0
    /\ lastOp = "other"

\* The engine on its loaded page, next to a client that is not connected.
InitFrom(heights, widths) ==
    /\ EngineInit(heights, widths)
    /\ PageLoaded
    /\ ClientConstructed({"DanmakuClient"})

Init == InitFrom(Heights, Widths)

\* ----------------------------------------------------------------- actions
\* The host clock advances.
Tick(d) ==
    /\ now + d <= MaxTime
    /\ now' = now + d
    /\ lastOp' = "other"
    /\ UNCHANGED <<pageVars, clientVars>>
    /\ UNCHANGED <<containerHeight, containerWidth, engine, reservations, maxInFlight>>

\* Faulty add: the enabled guard placed after the track reservation.
AddDisabledReserves(content) ==
    LET trackIndex == FindTrack(numTracks, trackStatus, now)
    IN  /\ ~enabled
        /\ trackStatus' = IF trackIndex = -1 THEN trackStatus
                          ELSE [trackStatus EXCEPT ![trackIndex] = now + 1]
        /\ lastOp' = "add_disabled"
        /\ UNCHANGED <<pageVars, clientVars>>
        /\ UNCHANGED <<now, containerHeight, containerWidth, numTracks,
                       danmakuPool, timers, speed, opacity, enabled,
                       reservations, maxInFlight>>

\* add(danmaku) with this.enabled false: returns at once.
AddDisabled(content) ==
    /\ ~enabled
    /\ lastOp' = "add_disabled"
    /\ UNCHANGED <<pageVars, clientVars>>
    /\ UNCHANGED <<now, containerHeight, containerWidth, engine, reservations, maxInFlight>>

\* add(danmaku), no track available: the danmaku is discarded.
AddDropped(content) ==
    /\ enabled
    /\ FindTrack(numTracks, trackStatus, now) = -1
    /\ lastOp' = "add_dropped"
    /\ UNCHANGED <<pageVars, clientVars>>
    /\ UNCHANGED <<now, containerHeight, containerWidth, engine, reservations, maxInFlight>>

\* add(danmaku), a track is available: the element is taken from the pool,
\* styled, timed, placed on the track, shown, and its recycling scheduled.
AddAdmitted(content) ==
    LET trackIndex == FindTrack(numTracks, trackStatus, now)
        got == getDanmakuElement(danmakuPool)
        textWidth == measureText(content)
        totalDistance == containerWidth + textWidth
        duration == Duration(totalDistance, speed)
        top == trackIndex * (trackHeight + trackGap)
        shown == [got.pool[got.el] EXCEPT
                    !.content = content,
                    !.opacity = <<opacity>>,
                    !.top = <<top>>,
                    !.display = "block",
                    !.transform = <<totalDistance>>]
    IN  /\ enabled
        /\ trackIndex # -1
        /\ Len(timers) < MaxTimers
        /\ trackStatus' = [trackStatus EXCEPT
                              ![trackIndex] = EndTime(now, duration)]
        /\ danmakuPool' = [got.pool EXCEPT ![got.el] = shown]
        /\ timers' = Append(timers, [el |-> got.el,
                                     due |-> now + TimerDelay(duration),
                                     abandoned |-> FALSE])
        /\ reservations' = reservations \cup
               {[track |-> trackIndex, start |-> now, duration |-> duration]}
        /\ maxInFlight' = IF InFlight(danmakuPool') > maxInFlight
                          THEN InFlight(danmakuPool') ELSE maxInFlight
        /\ lastOp' = "add_admitted"
        /\ UNCHANGED <<pageVars, clientVars>>
        /\ UNCHANGED <<now, containerHeight, containerWidth, numTracks, speed,
                       opacity, enabled>>

add(content) ==
    \/ AddDisabled(content)
    \/ AddDropped(content)
    \/ AddAdmitted(content)

\* The setTimeout callback of add: recycleDanmakuElement(el).
FireTimer(i) ==
    /\ NextTimer(i)
    /\ danmakuPool' = [danmakuPool EXCEPT
                         ![timers[i].el] = recycleDanmakuElement(@)]
    /\ timers' = RemoveAt(timers, i)
    /\ lastOp' = "recycle"
    /\ UNCHANGED <<pageVars, clientVars>>
    /\ UNCHANGED <<now, containerHeight, containerWidth, numTracks, trackStatus,
                   speed, opacity, enabled, reservations, maxInFlight>>

\* Faulty abandoning: the pending timers are cancelled.
AbandonCancelled(ts) == << >>

\* The pending timers after their comments were abandoned (history only:
\* due times and elements are untouched).
Abandon(ts) == [k \in 1 .. Len(ts) |-> [ts[k] EXCEPT !.abandoned = TRUE]]

\* clear()
clear ==
    /\ danmakuPool' = HideAll(danmakuPool)
    /\ trackStatus' = ZeroTracks(numTracks)
    /\ timers' = Abandon(timers)
    /\ reservations' = {}
    /\ lastOp' = "clear"
    /\ UNCHANGED <<pageVars, clientVars>>
    /\ UNCHANGED <<now, containerHeight, containerWidth, numTracks, speed,
                   opacity, enabled, maxInFlight>>

\* Faulty setEnabled: the flag is stored and nothing is hidden.
setEnabledFlagOnly(flag) ==
    /\ enabled' = flag
    /\ lastOp' = IF flag THEN "other" ELSE "disable"
    /\ UNCHANGED <<pageVars, clientVars>>
    /\ UNCHANGED <<now, containerHeight, containerWidth, numTracks, trackStatus,
                   danmakuPool, timers, speed, opacity, reservations, maxInFlight>>

\* setEnabled(flag)
setEnabled(flag) ==
    /\ enabled' = flag
    /\ IF ~flag
       THEN /\ danmakuPool' = HideAll(danmakuPool)
            /\ trackStatus' = ZeroTracks(numTracks)
            /\ timers' = Abandon(timers)
            /\ reservations' = {}
       ELSE UNCHANGED <<danmakuPool, trackStatus, timers, reservations>>
    /\ lastOp' = IF flag THEN "other" ELSE "disable"
    /\ UNCHANGED <<pageVars, clientVars>>
    /\ UNCHANGED <<now, containerHeight, containerWidth, numTracks, speed,
                   opacity, maxInFlight>>

\* Faulty setOpacity: the value is stored and no element is restyled.
setOpacityFieldOnly(o) ==
    /\ opacity' = o
    /\ lastOp' = "set_opacity"
    /\ UNCHANGED <<pageVars, clientVars>>
    /\ UNCHANGED <<now, containerHeight, containerWidth, numTracks, trackStatus,
                   danmakuPool, timers, speed, enabled, reservations, maxInFlight>>

\* setOpacity(opacity)
setOpacity(o) ==
    /\ opacity' = o
    /\ danmakuPool' = [i \in 1 .. Len(danmakuPool) |->
                          [danmakuPool[i] EXCEPT !.opacity = <<o>>]]
    /\ lastOp' = "set_opacity"
    /\ UNCHANGED <<pageVars, clientVars>>
    /\ UNCHANGED <<now, containerHeight, containerWidth, numTracks, trackStatus,
                   timers, speed, enabled, reservations, maxInFlight>>

\* Faulty setSpeed: the track table is reset as the other setters do.
setSpeedResetting(half) ==
    /\ speed' = (baseSpeed * half) \div 2
    /\ trackStatus' = ZeroTracks(numTracks)
    /\ lastOp' = "other"
    /\ UNCHANGED <<pageVars, clientVars>>
    /\ UNCHANGED <<now, containerHeight, containerWidth, numTracks,
                   danmakuPool, timers, opacity, enabled, reservations, maxInFlight>>

\* setSpeed(speedMultiplier), the multiplier given in halves.
setSpeed(half) ==
    /\ speed' = (baseSpeed * half) \div 2
    /\ lastOp' = "other"
    /\ UNCHANGED <<pageVars, clientVars>>
    /\ UNCHANGED <<now, containerHeight, containerWidth, numTracks, trackStatus,
                   danmakuPool, timers, opacity, enabled, reservations, maxInFlight>>

\* The window resize listener: the container takes a new size and
\* calculateTracks() runs.
resize(h, w) ==
    /\ containerHeight' = h
    /\ containerWidth' = w
    /\ numTracks' = TrackCount(h)
    /\ trackStatus' = ZeroTracks(TrackCount(h))
    /\ reservations' = {}
    /\ lastOp' = "resize"
    /\ UNCHANGED <<pageVars, clientVars>>
    /\ UNCHANGED <<now, danmakuPool, timers, speed, opacity, enabled, maxInFlight>>

\* The engine under its clock, its callers and its listeners.  setOpacity
\* writes only the opacity fields, which nothing else reads; it is explored
\* by SpecOpacity.
Next ==
    \/ \E d \in Steps : Tick(d)
    \/ \E c \in Contents : add(c)
    \/ \E i \in 1 .. MaxTimers : FireTimer(i)
    \/ clear
    \/ \E f \in BOOLEAN : setEnabled(f)
    \/ \E m \in HalfMultipliers : setSpeed(m)
    \/ \E h \in Heights, w \in Widths : resize(h, w)

Spec == Init /\ [][Next]_vars

\* Timing only: sequences of add under every width, content and speed of
\* the wider input sets, with no lane reset (clear, setEnabled, resize).
\* enabled stays true, so add never takes its disabled branch.
InitTiming == InitFrom(Heights, TimingWidths)

NextTiming ==
    \/ \E d \in Steps : Tick(d)
    \/ \E c \in TimingContents : AddDropped(c) \/ AddAdmitted(c)
    \/ \E i \in 1 .. MaxTimers : FireTimer(i)
    \/ \E m \in TimingHalfMultipliers : setSpeed(m)

SpecTiming == InitTiming /\ [][NextTiming]_vars

NextOpacity ==
    \/ \E d \in Steps : Tick(d)
    \/ \E c \in Contents : AddDropped(c) \/ AddAdmitted(c)
    \/ \E i \in 1 .. MaxTimers : FireTimer(i)
    \/ clear
    \/ \E o \in Opacities : setOpacity(o)

SpecOpacity == Init /\ [][NextOpacity]_vars

\* Adds, time and timers with setSpeed called on multipliers -1, 0 and 1:
\* setSpeed validates nothing.
NextAnySpeed ==
    \/ \E d \in Steps : Tick(d)
    \/ \E c \in Contents : AddDropped(c) \/ AddAdmitted(c)
    \/ \E i \in 1 .. MaxTimers : FireTimer(i)
    \/ \E m \in AnyHalfMultipliers : setSpeed(m)

SpecAnySpeed == Init /\ [][NextAnySpeed]_vars

\* Adds, time, timers, clear and resize, with the event loop's guarantees:
\* time goes on (up to MaxTime) and a timer that is due is run.
NextFair ==
    \/ \E d \in Steps : Tick(d)
    \/ \E c \in Contents : AddDropped(c) \/ AddAdmitted(c)
    \/ \E i \in 1 .. MaxTimers : FireTimer(i)
    \/ clear
    \/ \E h \in Heights, w \in Widths : resize(h, w)

Fairness ==
    /\ WF_vars(\E d \in Steps : Tick(d))
    /\ WF_vars(\E i \in 1 .. MaxTimers : FireTimer(i))

SpecFair == Init /\ [][NextFair]_vars /\ Fairness

\* ------------------------------------------------------------------- page
\* What every page step leaves alone.
PageFrame == UNCHANGED <<now, containerHeight, containerWidth, clientVars>>

\* No engine is constructed or touched.
EngineUntouched ==
    UNCHANGED <<engine, reservations, maxInFlight, lastOp, danmakuEngine,
                constructed, orphaned>>

\* new DanmakuEngine(container) assigned to the global: constructor and
\* init().  The engine addressed before, if any, keeps its elements in the
\* container and its timers, and is out of reach of the global functions.
ConstructEngine ==
    /\ numTracks' = TrackCount(containerHeight)
    /\ trackStatus' = ZeroTracks(TrackCount(containerHeight))
    /\ danmakuPool' = createPool
    /\ timers' = << >>
    /\ speed' = baseSpeed
    /\ opacity' = 100
    /\ enabled' = TRUE
    /\ reservations' = {}
    /\ maxInFlight' = 0
    /\ lastOp' = "other"
    /\ danmakuEngine' = constructed + 1
    /\ constructed' = constructed + 1
    /\ orphaned' = orphaned + InFlight(danmakuPool)

\* initDanmakuEngine()
initDanmakuEngine == IF layerParsed THEN ConstructEngine ELSE EngineUntouched

\* The parser reaches the container element.
ParseLayer ==
    /\ readyState = "loading"
    /\ ~layerParsed
    /\ layerParsed' = TRUE
    /\ EngineUntouched
    /\ PageFrame
    /\ UNCHANGED <<readyState, scriptRun, dclFired>>

\* The engine script is evaluated: the global functions are defined, the
\* DOMContentLoaded listener is added, and initDanmakuEngine() is called at
\* once unless the document is still loading.
EvaluateScript ==
    /\ ~scriptRun
    /\ scriptRun' = TRUE
    /\ IF readyState # "loading" THEN initDanmakuEngine ELSE EngineUntouched
    /\ PageFrame
    /\ UNCHANGED <<readyState, layerParsed, dclFired>>

\* The parser finishes: readyState becomes 'interactive'; deferred scripts
\* run in this state, before DOMContentLoaded.
FinishParsing ==
    /\ readyState = "loading"
    /\ readyState' = "interactive"
    /\ EngineUntouched
    /\ PageFrame
    /\ UNCHANGED <<layerParsed, scriptRun, dclFired>>

\* DOMContentLoaded is dispatched: the listener, if added by then, calls
\* initDanmakuEngine().
DOMContentLoaded ==
    /\ readyState = "interactive"
    /\ ~dclFired
    /\ dclFired' = TRUE
    /\ IF scriptRun THEN initDanmakuEngine ELSE EngineUntouched
    /\ PageFrame
    /\ UNCHANGED <<readyState, layerParsed, scriptRun>>

\* The document and its resources are loaded.
PageComplete ==
    /\ readyState = "interactive"
    /\ dclFired
    /\ readyState' = "complete"
    /\ EngineUntouched
    /\ PageFrame
    /\ UNCHANGED <<layerParsed, scriptRun, dclFired>>

\* window.addDanmaku(data) with no engine and no container: nothing happens.
AddDanmakuIgnored ==
    /\ scriptRun
    /\ danmakuEngine = 0
    /\ ~layerParsed
    /\ UNCHANGED vars

\* window.addDanmaku(data) with no engine and the container in the document:
\* initDanmakuEngine(), then add(data) on the new engine, whose tracks are
\* all available and whose pool is all hidden.
AddDanmakuOnNewEngine(content) ==
    LET n == TrackCount(containerHeight)
        trackIndex == FindTrack(n, ZeroTracks(n), now)
        got == getDanmakuElement(createPool)
        textWidth == measureText(content)
        totalDistance == containerWidth + textWidth
        duration == Duration(totalDistance, baseSpeed)
        top == trackIndex * (trackHeight + trackGap)
        shown == [got.pool[got.el] EXCEPT
                    !.content = content,
                    !.opacity = <<100>>,
                    !.top = <<top>>,
                    !.display = "block",
                    !.transform = <<totalDistance>>]
    IN  /\ scriptRun
        /\ danmakuEngine = 0
        /\ layerParsed
        /\ numTracks' = n
        /\ IF trackIndex = -1
           THEN /\ trackStatus' = ZeroTracks(n)
                /\ danmakuPool' = createPool
                /\ timers' = << >>
                /\ reservations' = {}
                /\ maxInFlight' = 0
                /\ lastOp' = "add_dropped"
           ELSE /\ trackStatus' = [ZeroTracks(n) EXCEPT
                                     ![trackIndex] = EndTime(now, duration)]
                /\ danmakuPool' = [got.pool EXCEPT ![got.el] = shown]
                /\ timers' = <<[el |-> got.el,
                                due |-> now + TimerDelay(duration),
                                abandoned |-> FALSE]>>
                /\ reservations' =
                      {[track |-> trackIndex, start |-> now, duration |-> duration]}
                /\ maxInFlight' = 1
                /\ lastOp' = "add_admitted"
        /\ speed' = baseSpeed
        /\ opacity' = 100
        /\ enabled' = TRUE
        /\ danmakuEngine' = constructed + 1
        /\ constructed' = constructed + 1
        /\ orphaned' = orphaned
        /\ PageFrame
        /\ UNCHANGED <<readyState, layerParsed, scriptRun, dclFired>>

\* window.addDanmaku(data)
addDanmaku(content) ==
    \/ AddDanmakuIgnored
    \/ AddDanmakuOnNewEngine(content)
    \/ scriptRun /\ danmakuEngine # 0 /\ add(content)

\* window.setDanmakuEnabled(enabled): nothing happens without an engine.
setDanmakuEnabled(flag) ==
    \/ scriptRun /\ danmakuEngine = 0 /\ UNCHANGED vars
    \/ scriptRun /\ danmakuEngine # 0 /\ setEnabled(flag)

\* The page before anything is parsed: no engine, the global is null.
InitPage ==
    /\ now = 1
    /\ containerHeight \in Heights
    /\ containerWidth \in Widths
    /\ numTracks = 0
    /\ trackStatus = ZeroTracks(0)
    /\ danmakuPool = << >>
    /\ timers = << >>
    /\ speed = baseSpeed
    /\ opacity = 100
    /\ enabled = TRUE
    /\ reservations = {}
    /\ maxInFlight = 0
    /\ lastOp = "other"
    /\ readyState = "loading"
    /\ layerParsed = FALSE
    /\ scriptRun = FALSE
    /\ dclFired = FALSE
    /\ danmakuEngine = 0
    /\ constructed = 0
    /\ orphaned = 0
    /\ ClientConstructed({"DanmakuClient"})

\* Page load in every order of parsing, script evaluation and
\* DOMContentLoaded, with calls of window.addDanmaku and
\* window.setDanmakuEnabled, time and timers.
NextPage ==
    \/ ParseLayer
    \/ EvaluateScript
    \/ FinishParsing
    \/ DOMContentLoaded
    \/ PageComplete
    \/ \E c \in Contents : addDanmaku(c)
    \/ \E flag \in BOOLEAN : setDanmakuEnabled(flag)
    \/ \E d \in Steps : Tick(d)
    \/ \E i \in 1 .. MaxTimers : FireTimer(i)

SpecPage == InitPage /\ [][NextPage]_vars

\* ----------------------------------------------------------------- client
\* What every client step leaves alone.  A comment a handler passes on
\* (window.addDanmaku, the onDanmaku callback) is recorded in rendered; what
\* the engine does with it is the subject of the engine's specifications.
ClientFrame == UNCHANGED <<engineVars, pageVars>>

\* The heartbeat handle and the running intervals, as one value.
Heartbeat == [timer |-> heartbeatTimer, running |-> heartbeats]

\* stopHeartbeat()
stopHeartbeat(h) ==
    IF h.timer THEN [timer |-> FALSE, running |-> h.running - 1] ELSE h

\* Faulty startHeartbeat: the previous interval is not cleared.
startHeartbeatNoStop(h) == [timer |-> TRUE, running |-> h.running + 1]

\* startHeartbeat()
startHeartbeat(h) ==
    [timer |-> TRUE, running |-> stopHeartbeat(h).running + 1]

\* The reconnect counter, handle and armed timeouts, as one value.
Reconnect ==
    [attempts |-> reconnectAttempts, timer |-> reconnectTimer,
     queue |-> reconnectQueue]

\* Faulty scheduleReconnect: the attempt limit is not checked.
scheduleReconnectUnbounded(r) ==
    IF variant = "DanmakuClient" /\ ~reconnectEnabled THEN r
    ELSE [attempts |-> r.attempts + 1, timer |-> "armed",
          queue |-> Append(r.queue, reconnectInterval)]

\* scheduleReconnect().  Only DanmakuClient has, and tests, reconnectEnabled.
scheduleReconnect(r) ==
    IF variant = "DanmakuClient" /\ ~reconnectEnabled THEN r
    ELSE IF r.attempts >= maxReconnectAttempts THEN r
    ELSE [attempts |-> r.attempts + 1, timer |-> "armed",
          queue |-> Append(r.queue, reconnectInterval)]

\* What send(message) puts on the socket: the message if the socket is
\* open, nothing otherwise.
send(type) == IF ws = "open" THEN type ELSE "none"

\* String.prototype.trim on a sequence of characters.
RECURSIVE TrimStart(_)
TrimStart(text) ==
    IF text # << >> /\ Head(text) = " " THEN TrimStart(Tail(text)) ELSE text

RECURSIVE TrimEnd(_)
TrimEnd(text) ==
    IF text # << >> /\ text[Len(text)] = " "
    THEN TrimEnd(SubSeq(text, 1, Len(text) - 1)) ELSE text

trim(text) == TrimEnd(TrimStart(text))

\* connect(), as the page calls it once after constructing the client.
connect ==
    /\ connects = 0
    /\ ws' = "connecting"
    /\ connects' = connects + 1
    /\ authReceived' = FALSE
    /\ wire' = "none"
    /\ returned' = "none"
    /\ rendered' = FALSE
    /\ ClientFrame
    /\ UNCHANGED <<variant, isConnected, isAuthenticated, reconnectEnabled,
                   reconnectAttempts, reconnectTimer, reconnectQueue,
                   heartbeatTimer, heartbeats, authTimers, disconnected>>

\* onOpen / handleOpen: the socket opens.  useWebSocket resets the attempt
\* counter here.
onOpen ==
    /\ ws = "connecting"
    /\ ws' = "open"
    /\ isConnected' = TRUE
    /\ reconnectAttempts' =
          IF variant = "useWebSocket" THEN 0 ELSE reconnectAttempts
    /\ authTimers' = authTimers + 1
    /\ wire' = "none"
    /\ returned' = "none"
    /\ rendered' = FALSE
    /\ ClientFrame
    /\ UNCHANGED <<variant, isAuthenticated, reconnectEnabled, reconnectTimer,
                   reconnectQueue, heartbeatTimer, heartbeats, connects,
                   disconnected, authReceived>>

\* The timeout set by onOpen runs sendAuth().
sendAuth ==
    /\ authTimers > 0
    /\ authTimers' = authTimers - 1
    /\ wire' = send("auth")
    /\ returned' = "none"
    /\ rendered' = FALSE
    /\ ClientFrame
    /\ UNCHANGED <<variant, ws, isConnected, isAuthenticated, reconnectEnabled,
                   reconnectAttempts, reconnectTimer, reconnectQueue,
                   heartbeatTimer, heartbeats, connects, disconnected,
                   authReceived>>

\* onClose / handleClose: the close event of the socket, after a failed
\* connection, a close by the peer or the network, or a local close().
onClose ==
    /\ ws \in {"connecting", "open", "closing"}
    /\ ws' = "closed"
    /\ isConnected' = FALSE
    /\ isAuthenticated' = FALSE
    /\ heartbeatTimer' = stopHeartbeat(Heartbeat).timer
    /\ heartbeats' = stopHeartbeat(Heartbeat).running
    /\ reconnectAttempts' = scheduleReconnect(Reconnect).attempts
    /\ reconnectTimer' = scheduleReconnect(Reconnect).timer
    /\ reconnectQueue' = scheduleReconnect(Reconnect).queue
    /\ wire' = "none"
    /\ returned' = "none"
    /\ rendered' = FALSE
    /\ ClientFrame
    /\ UNCHANGED <<variant, reconnectEnabled, authTimers, connects,
                   disconnected, authReceived>>

\* The reconnect timeout runs connect().  The sendAuth timeout of the
\* socket that closed was armed earlier with a shorter delay, so it has run.
ReconnectTimerFires ==
    /\ reconnectQueue # << >>
    /\ authTimers = 0
    /\ connects < MaxConnects
    /\ reconnectQueue' = Tail(reconnectQueue)
    /\ reconnectTimer' =
          IF Len(reconnectQueue) = 1 /\ reconnectTimer = "armed"
          THEN "spent" ELSE reconnectTimer
    /\ ws' = "connecting"
    /\ connects' = connects + 1
    /\ authReceived' = FALSE
    /\ wire' = "none"
    /\ returned' = "none"
    /\ rendered' = FALSE
    /\ ClientFrame
    /\ UNCHANGED <<variant, isConnected, isAuthenticated, reconnectEnabled,
                   reconnectAttempts, heartbeatTimer, heartbeats, authTimers,
                   disconnected>>

\* onMessage / handleMessage for a message of the given type; the browser
\* delivers messages only while the socket is open.
handleMessage(type) ==
    /\ ws = "open"
    /\ IF type = "auth_success"
       THEN /\ isAuthenticated' = TRUE
            /\ authReceived' = TRUE
            /\ reconnectAttempts' =
                  IF variant = "DanmakuClient" THEN 0 ELSE reconnectAttempts
            /\ heartbeatTimer' = startHeartbeat(Heartbeat).timer
            /\ heartbeats' = startHeartbeat(Heartbeat).running
       ELSE UNCHANGED <<isAuthenticated, authReceived, reconnectAttempts,
                        heartbeatTimer, heartbeats>>
    /\ wire' = IF type = "heartbeat" THEN send("heartbeat") ELSE "none"
    /\ rendered' = (type \in {"auth_success", "danmaku"})
    /\ returned' = "none"
    /\ ClientFrame
    /\ UNCHANGED <<variant, ws, isConnected, reconnectEnabled, reconnectTimer,
                   reconnectQueue, authTimers, connects, disconnected>>

\* A heartbeat interval runs sendHeartbeat().
HeartbeatFires ==
    /\ heartbeats > 0
    /\ wire' = send("heartbeat")
    /\ returned' = "none"
    /\ rendered' = FALSE
    /\ ClientFrame
    /\ UNCHANGED <<variant, ws, isConnected, isAuthenticated, reconnectEnabled,
                   reconnectAttempts, reconnectTimer, reconnectQueue,
                   heartbeatTimer, heartbeats, authTimers, connects,
                   disconnected, authReceived>>

\* Faulty sendDanmaku: the authentication check is missing.
sendDanmakuUnchecked(content) ==
    /\ wire' = IF trim(content) # << >> THEN send("danmaku") ELSE "none"
    /\ returned' = IF wire' = "danmaku" THEN "true" ELSE "false"
    /\ rendered' = FALSE
    /\ ClientFrame
    /\ UNCHANGED <<variant, ws, isConnected, isAuthenticated, reconnectEnabled,
                   reconnectAttempts, reconnectTimer, reconnectQueue,
                   heartbeatTimer, heartbeats, authTimers, connects,
                   disconnected, authReceived>>

\* sendDanmaku(content)
sendDanmaku(content) ==
    /\ wire' = IF isAuthenticated /\ trim(content) # << >>
               THEN send("danmaku") ELSE "none"
    /\ returned' = IF wire' = "danmaku" THEN "true" ELSE "false"
    /\ rendered' = FALSE
    /\ ClientFrame
    /\ UNCHANGED <<variant, ws, isConnected, isAuthenticated, reconnectEnabled,
                   reconnectAttempts, reconnectTimer, reconnectQueue,
                   heartbeatTimer, heartbeats, authTimers, connects,
                   disconnected, authReceived>>

\* disconnect() (useWebSocket also calls it on unmount).  clearTimeout
\* cancels the timeout the handle names if it is still armed; ws.close()
\* puts a connecting or open socket into the closing state.  The page
\* disconnects a client it has connected (unmount follows mount).
disconnect ==
    /\ connects > 0
    /\ disconnected' = TRUE
    /\ reconnectEnabled' =
          IF variant = "DanmakuClient" THEN FALSE ELSE reconnectEnabled
    /\ heartbeatTimer' = stopHeartbeat(Heartbeat).timer
    /\ heartbeats' = stopHeartbeat(Heartbeat).running
    /\ IF reconnectTimer = "armed"
       THEN /\ reconnectQueue' =
                  SubSeq(reconnectQueue, 1, Len(reconnectQueue) - 1)
            /\ reconnectTimer' = "spent"
       ELSE UNCHANGED <<reconnectQueue, reconnectTimer>>
    /\ ws' = IF ws \in {"connecting", "open"} THEN "closing" ELSE ws
    /\ wire' = "none"
    /\ returned' = "none"
    /\ rendered' = FALSE
    /\ ClientFrame
    /\ UNCHANGED <<variant, isConnected, isAuthenticated, reconnectAttempts,
                   authTimers, connects, authReceived>>

\* Either client, constructed on a loaded page.
InitClient ==
    /\ EngineInit({40}, Widths)
    /\ PageLoaded
    /\ ClientConstructed(Variants)

\* The client under its page (connect, sendDanmaku, disconnect), its socket
\* (open, close, messages) and its timers.
NextClient ==
    \/ connect
    \/ onOpen
    \/ sendAuth
    \/ onClose
    \/ ReconnectTimerFires
    \/ \E type \in MessageTypes : handleMessage(type)
    \/ HeartbeatFires
    \/ \E content \in Inputs : sendDanmaku(content)
    \/ disconnect

SpecClient == InitClient /\ [][NextClient]_vars

\* ---------------------------------------------------------------- properties
Slots == 1 .. Len(danmakuPool)
Tracks == 0 .. numTracks - 1
Visible(i) == danmakuPool[i].display = "block"

\* The track an element was last placed on: top / (trackHeight + trackGap).
LaneOf(i) == danmakuPool[i].top[1] \div (trackHeight + trackGap)

\* [start, start + duration) of two reservations have a point in common.
Overlap(r, q) ==
    /\ r.start < q.start + q.duration
    /\ q.start < r.start + r.duration

\* The reservation an add that runs now makes on a track.
Arrival(track) ==
    [track |-> track, start |-> now,
     duration |-> trackStatus'[track] - now]

\* The tracks a step reserves.
Reserved == {i \in Tracks : trackStatus'[i] # trackStatus[i]}

\* C1 - Lane mutual exclusion: between two lane resets (clear,
\* setEnabled(false), resize), the interval [admitTime, admitTime + duration)
\* of a comment that add admits into a track overlaps the interval of no
\* comment admitted into that track before it.
LaneMutualExclusion ==
    [][\A c \in TimingContents : AddAdmitted(c) =>
          \A i \in Reserved : \A r \in reservations :
              r.track = i => ~Overlap(r, Arrival(i))]_vars

\* Two comments were admitted one after the other into one track.
LaneReusedWitness ==
    \E r, q \in reservations :
        /\ r.track = q.track
        /\ r.start < q.start
        /\ r.duration > 0
        /\ q.duration > 0

\* C2 - At most one in-flight comment (visible element) per track index.
OneInFlightPerLane ==
    \A i, j \in Slots :
        (i # j /\ Visible(i) /\ Visible(j)) => LaneOf(i) # LaneOf(j)

\* C3 - Stale completion callbacks are harmless: the recycle callback of a
\* comment abandoned by clear() or setEnabled(false), when it is the callback
\* that runs next, finds its element free (hidden).
StaleCallbackFindsSlotFree ==
    \A i \in 1 .. Len(timers) :
        (NextTimer(i) /\ timers[i].abandoned) => ~Visible(timers[i].el)

\* C4 - First-fit: an add that admits a comment reserves exactly one track;
\* that track is available (now >= trackStatus[i]), every track of smaller
\* index is unavailable, and the element is placed on that track.
FirstFit ==
    [][\A c \in Contents : AddAdmitted(c) =>
          \E i \in Tracks :
              /\ Reserved = {i}
              /\ now >= trackStatus[i]
              /\ \A j \in 0 .. i - 1 : now < trackStatus[j]
              /\ \E e \in 1 .. Len(danmakuPool') :
                    /\ danmakuPool'[e].display = "block"
                    /\ danmakuPool'[e].top = <<i * (trackHeight + trackGap)>>
                    /\ (e \in Slots => danmakuPool[e] # danmakuPool'[e])]_vars

\* A comment was just admitted into track 1 while track 0 is reserved.
FirstFitWitness ==
    /\ lastOp = "add_admitted"
    /\ numTracks = 2
    /\ trackStatus[0] > now
    /\ \E r \in reservations : r.track = 1 /\ r.start = now

PoolLengthIsMaxInFlight == Len(danmakuPool) = maxInFlight

\* C6 (amended) - The pool length equals the larger of the initial pool size
\* and the historical maximum number of simultaneously in-flight comments.
PoolReuseBound ==
    Len(danmakuPool) = IF maxInFlight > poolSize THEN maxInFlight ELSE poolSize

\* The pool has grown beyond its initial size.
PoolGrownWitness ==
    /\ Len(danmakuPool) > poolSize
    /\ maxInFlight = Len(danmakuPool)

\* C7 - Duration formula: an admitted comment's duration d satisfies
\* d * speed = (containerWidth + textWidth) * 1000; the track is reserved
\* until now + d and the recycle callback of the element shown is due at
\* now + d.
DurationFormula ==
    [][\A c \in TimingContents : AddAdmitted(c) =>
          \E i \in Tracks :
              LET d == trackStatus'[i] - now
                  t == timers'[Len(timers')]
              IN  /\ Reserved = {i}
                  /\ d * speed = (containerWidth + measureText(c)) * 1000
                  /\ Len(timers') = Len(timers) + 1
                  /\ t.due = now + d
                  /\ t.due = trackStatus'[i]
                  /\ danmakuPool'[t.el].display = "block"
                  /\ danmakuPool'[t.el].content = c
                  /\ danmakuPool'[t.el].top = <<i * (trackHeight + trackGap)>>]_vars

\* A comment of width 1 was just admitted at a speed other than the base
\* speed, and its track is reserved until its recycle callback is due.
DurationWitness ==
    /\ lastOp = "add_admitted"
    /\ speed # baseSpeed
    /\ \E r \in reservations :
          /\ r.start = now
          /\ r.duration * speed = (containerWidth + 1) * 1000
          /\ trackStatus[r.track] = now + r.duration
          /\ \E k \in 1 .. Len(timers) :
                /\ timers[k].due = now + r.duration
                /\ danmakuPool[timers[k].el].content = "a"
                /\ Visible(timers[k].el)

\* The latest reservation since the last reset.
Latest(r) == r \in reservations /\ \A q \in reservations : q.start <= r.start

DisableHidesForGood ==
    [][/\ setEnabled(FALSE) =>
             /\ \A e \in 1 .. Len(danmakuPool') : danmakuPool'[e].display = "none"
             /\ Len(danmakuPool') = Len(danmakuPool)
             /\ \A i \in 0 .. numTracks' - 1 : trackStatus'[i] = 0 /\ now' >= trackStatus'[i]
       /\ \A k \in 1 .. Len(timers) : FireTimer(k) =>
             \A e \in 1 .. Len(danmakuPool') :
                 danmakuPool'[e].display = "block" => Visible(e)]_vars

\* A recycle callback has just run while the engine is disabled (no add
\* takes effect while disabled: the callback was pending when setEnabled(false)
\* ran), and another abandoned callback is still pending.
DisableWitness ==
    /\ lastOp = "recycle"
    /\ ~enabled
    /\ \E k \in 1 .. Len(timers) : timers[k].abandoned

\* C10 - Idempotent release: the recycle callback, run on an element that is
\* already free (hidden), leaves that element unchanged.
ReleaseOfFreeSlotChangesNothing ==
    [][\A k \in 1 .. Len(timers) :
          (FireTimer(k) /\ ~Visible(timers[k].el)) =>
              danmakuPool'[timers[k].el] = danmakuPool[timers[k].el]]_vars

\* The pending timers without their history mark.
Pending(ts) == [k \in 1 .. Len(ts) |-> [el |-> ts[k].el, due |-> ts[k].due]]

\* C11 - setSpeed changes only the speed (100 * multiplier): tracks, pending
\* timers and their due times, elements, pool and the other settings are
\* unchanged, so a comment in flight keeps its duration; an admission leaves
\* the earlier timers alone and times its own comment with the current speed.
SetSpeedFrame ==
    [][/\ \A m \in HalfMultipliers : setSpeed(m) =>
          /\ 2 * speed' = baseSpeed * m
          /\ UNCHANGED <<numTracks, trackStatus, danmakuPool, timers,
                         opacity, enabled, containerHeight, containerWidth>>
       /\ \A c \in Contents : AddAdmitted(c) =>
             LET d    == timers'[Len(timers')].due - now
                 dist == (containerWidth + measureText(c)) * 1000
             IN  /\ Pending(SubSeq(timers', 1, Len(timers))) = Pending(timers)
                 /\ d * speed <= dist
                 /\ dist < (d + 1) * speed]_vars

\* The speed differs from the base speed while a comment admitted at the
\* base speed is in flight, its track reserved and its callback due at the
\* end of its original duration.
SetSpeedWitness ==
    /\ speed # baseSpeed
    /\ \E r \in reservations : \E k \in 1 .. Len(timers) :
          /\ r.duration * baseSpeed = (containerWidth + 1) * 1000
          /\ timers[k].due = r.start + r.duration
          /\ trackStatus[r.track] = r.start + r.duration
          /\ Visible(timers[k].el)
          /\ now < timers[k].due

\* C13 - While enabled is false no element is visible.
HiddenWhileDisabled == ~enabled => \A i \in Slots : ~Visible(i)

\* A recycle callback or an add has just run while the engine is disabled.
HiddenWhileDisabledWitness ==
    /\ ~enabled
    /\ lastOp \in {"recycle", "add_disabled"}
    /\ Len(timers) > 0

\* C14 - add while enabled is false changes nothing: tracks, pool, elements,
\* timers and settings.
AddDisabledFrame ==
    [][\A c \in Contents : (add(c) /\ ~enabled) =>
          UNCHANGED <<engine, containerHeight, containerWidth, reservations>>]_vars

\* An add has just run while the engine is disabled and a track is available.
AddDisabledWitness ==
    /\ lastOp = "add_disabled"
    /\ ~enabled
    /\ \E i \in Tracks : now >= trackStatus[i]

\* C15 - clear() hides every element and makes every track available, and
\* changes nothing else: settings, track count, pool size, the other fields
\* of the elements, and the pending timers (none is cancelled).
ClearFrame ==
    [][clear =>
          /\ Len(danmakuPool') = Len(danmakuPool)
          /\ \A e \in Slots :
                danmakuPool'[e] = [danmakuPool[e] EXCEPT !.display = "none"]
          /\ DOMAIN trackStatus' = Tracks
          /\ \A i \in Tracks : trackStatus'[i] = 0
          /\ Pending(timers') = Pending(timers)
          /\ UNCHANGED <<enabled, opacity, speed, numTracks>>]_vars

\* clear() has just run with a comment's recycle callback still pending.
ClearWitness ==
    /\ lastOp = "clear"
    /\ numTracks > 0
    /\ \E k \in 1 .. Len(timers) : timers[k].due > now

\* C16 - On resize the track count becomes floor(height / (trackHeight +
\* trackGap)) and every track is available; elements (visibility, top),
\* pending timers and pool are unchanged.
ResizeFrame ==
    [][\A h \in Heights, w \in Widths : resize(h, w) =>
          /\ numTracks' * (trackHeight + trackGap) <= h
          /\ h < (numTracks' + 1) * (trackHeight + trackGap)
          /\ DOMAIN trackStatus' = 0 .. numTracks' - 1
          /\ \A i \in 0 .. numTracks' - 1 : trackStatus'[i] = 0
          /\ UNCHANGED <<danmakuPool, timers, speed, opacity, enabled>>]_vars

\* The resize listener has just run and left a visible element on a track
\* position that the new track table no longer has.
ResizeWitness ==
    /\ lastOp = "resize"
    /\ \E e \in Slots : Visible(e) /\ LaneOf(e) >= numTracks
    /\ Len(timers) > 0

\* C12 - The pool never fails and never shrinks: its length starts at
\* poolSize and no step decreases it; every add that runs enabled with an
\* available track shows exactly one element, which was hidden or is newly
\* appended to the pool, and schedules its callback.
PoolNeverFailsNorShrinks ==
    /\ Len(danmakuPool) = poolSize
    /\ [][/\ Len(danmakuPool') >= Len(danmakuPool)
          /\ \A c \in Contents :
                (add(c) /\ enabled /\ \E i \in Tracks : now >= trackStatus[i]) =>
                    \E e \in 1 .. Len(danmakuPool') :
                        /\ danmakuPool'[e].display = "block"
                        /\ danmakuPool'[e].content = c
                        /\ e \in Slots => ~Visible(e)
                        /\ e \notin Slots => e = Len(danmakuPool) + 1
                        /\ \A f \in Slots \ {e} : danmakuPool'[f] = danmakuPool[f]
                        /\ timers'[Len(timers')].el = e]_vars

\* A comment was just admitted with every element of the initial pool
\* visible: it is shown on an element appended to the pool.
PoolNeverFailsWitness ==
    /\ lastOp = "add_admitted"
    /\ Len(danmakuPool) = poolSize + 1
    /\ \A e \in Slots : Visible(e)
    /\ timers[Len(timers)].el = Len(danmakuPool)

\* C20 - getDanmakuElement returns the first element in pool order that is
\* hidden, never a visible one, and appends a new element only when no
\* element of the pool is hidden.
AcquireFirstHidden ==
    [][\A c \in Contents : AddAdmitted(c) =>
          LET e == timers'[Len(timers')].el
          IN  IF \E f \in Slots : danmakuPool[f].display = "none"
              THEN /\ e \in Slots
                   /\ danmakuPool[e].display = "none"
                   /\ \A f \in 1 .. e - 1 : danmakuPool[f].display # "none"
                   /\ Len(danmakuPool') = Len(danmakuPool)
              ELSE /\ e = Len(danmakuPool) + 1
                   /\ Len(danmakuPool') = e]_vars

\* A comment was just admitted on the first element of the pool while a
\* later element is hidden too.
AcquireFirstHiddenWitness ==
    /\ lastOp = "add_admitted"
    /\ timers[Len(timers)].el = 1
    /\ \E f \in Slots : f > 1 /\ danmakuPool[f].display = "none"

\* C17 - Uniform opacity: every visible element carries the engine's current
\* opacity, and setOpacity sets the opacity of every element of the pool,
\* visible or hidden.
UniformOpacity ==
    /\ [](\A e \in Slots : Visible(e) => danmakuPool[e].opacity = <<opacity>>)
    /\ [][\A o \in Opacities : setOpacity(o) =>
             /\ opacity' = o
             /\ Len(danmakuPool') = Len(danmakuPool)
             /\ \A e \in Slots :
                   danmakuPool'[e] = [danmakuPool[e] EXCEPT !.opacity = <<o>>]]_vars

\* setOpacity has just changed the opacity of a grown pool holding a visible
\* and a hidden element.
UniformOpacityWitness ==
    /\ lastOp = "set_opacity"
    /\ opacity # 100
    /\ Len(danmakuPool) > poolSize
    /\ \E e, f \in Slots :
          /\ Visible(e)
          /\ ~Visible(f)
          /\ danmakuPool[e].opacity = <<opacity>>
          /\ danmakuPool[f].opacity = <<opacity>>

\* C18 - Speed is structurally positive: in every reachable state, whatever
\* multiplier setSpeed was given, the speed is > 0, and every reservation and
\* every track's end time is finite.
SpeedStructurallyPositive ==
    /\ speed > 0
    /\ \A i \in Tracks : trackStatus[i] # Infinity
    /\ \A r \in reservations : r.duration # Infinity /\ r.duration >= 0

\* The largest pool index: the initial elements and one per pending timer.
MaxSlots == poolSize + MaxTimers

\* Element e is visible and a callback for it is due within the modelled time.
AwaitsRecycle(e) ==
    /\ e \in Slots
    /\ Visible(e)
    /\ \E k \in 1 .. Len(timers) : timers[k].el = e /\ timers[k].due <= MaxTime

\* C19 - Every admitted comment is eventually recycled: an admission
\* schedules exactly one callback, for the element it shows; a visible
\* element always has a callback pending; and with time going on and due
\* timers run, a visible element whose callback is due within the modelled
\* time becomes hidden.
EventuallyRecycled ==
    /\ [][\A c \in Contents : AddAdmitted(c) =>
             /\ Len(timers') = Len(timers) + 1
             /\ SubSeq(timers', 1, Len(timers)) = timers
             /\ danmakuPool'[timers'[Len(timers')].el].display = "block"
             /\ danmakuPool'[timers'[Len(timers')].el] #
                   IF timers'[Len(timers')].el \in Slots
                   THEN danmakuPool[timers'[Len(timers')].el]
                   ELSE FreshElement]_vars
    /\ [](\A e \in Slots : Visible(e) => \E k \in 1 .. Len(timers) : timers[k].el = e)
    /\ \A e \in 1 .. MaxSlots :
          AwaitsRecycle(e) ~> (e \in Slots /\ ~Visible(e))

\* The callback of an admitted comment has just run: no timer is pending and
\* every element is hidden again.
EventuallyRecycledWitness ==
    /\ lastOp = "recycle"
    /\ maxInFlight > 0
    /\ timers = << >>
    /\ \A e \in Slots : ~Visible(e) /\ danmakuPool[e].content = ""

\* The reservations made on a track since the last reset of the track table.
ReservationsOf(i) == {r \in reservations : r.track = i}

\* C21 (as claimed) - A track into which a comment was ever admitted (an
\* element still carries the position add gave it on that track) holds a
\* completion time, not the zero of a track never used.
FreeAtOfEveryTrackEverUsed ==
    \A i \in Tracks :
        (\E e \in Slots : danmakuPool[e].top = <<i * (trackHeight + trackGap)>>)
            => trackStatus[i] # 0

\* C21 (amended) - Each track's end time is admission time + duration of the
\* comment most recently admitted into it since the track table was last
\* refilled (construction, clear, setEnabled(false), resize), or zero if no
\* comment was admitted into it since then.
FreeAtSinceLastReset ==
    \A i \in Tracks :
        IF ReservationsOf(i) = {} THEN trackStatus[i] = 0
        ELSE \E r \in ReservationsOf(i) :
                /\ \A q \in ReservationsOf(i) : q.start <= r.start
                /\ trackStatus[i] = r.start + r.duration

\* A second comment was just admitted into a track used before, and another
\* track has stayed unused since the last reset.
FreeAtWitness ==
    /\ lastOp = "add_admitted"
    /\ \E i, j \in Tracks :
          /\ \E r, q \in ReservationsOf(i) : r.start < q.start /\ q.start = now
          /\ trackStatus[i] > now
          /\ ReservationsOf(j) = {}
          /\ trackStatus[j] = 0

\* C22 - Singleton engine: in every order of script evaluation,
\* DOMContentLoaded and calls of window.addDanmaku, at most one DanmakuEngine
\* is constructed, and no comment is left visible on an engine that the
\* global functions no longer address.
SingletonEngine ==
    /\ constructed <= 1
    /\ orphaned = 0

\* The socket's close event is handled in this step.
Closes == ws # "closed" /\ ws' = "closed"

\* C23 - Automatic reconnect is bounded, in both clients: a close event with
\* reconnecting permitted and reconnectAttempts < maxReconnectAttempts arms
\* exactly one timeout of reconnectInterval and counts one attempt, every
\* other close arms none; an armed timeout runs exactly one connect();
\* reconnectAttempts never exceeds maxReconnectAttempts.
BoundedReconnect ==
    /\ [](reconnectAttempts <= maxReconnectAttempts)
    /\ [][Closes =>
             IF /\ variant = "DanmakuClient" => reconnectEnabled
                /\ reconnectAttempts < maxReconnectAttempts
             THEN /\ reconnectQueue' = Append(reconnectQueue, reconnectInterval)
                  /\ reconnectAttempts' = reconnectAttempts + 1
             ELSE /\ reconnectQueue' = reconnectQueue
                  /\ reconnectAttempts' = reconnectAttempts]_vars
    /\ [][ReconnectTimerFires =>
             /\ connects' = connects + 1
             /\ Len(reconnectQueue') = Len(reconnectQueue) - 1]_vars
    /\ [][connects' # connects =>
             /\ connects' = connects + 1
             /\ connects = 0 \/ Len(reconnectQueue') < Len(reconnectQueue)]_vars

\* The attempt limit is reached: the last reconnect failed too, the socket
\* is closed and no timeout is armed, with reconnecting still permitted.
BoundedReconnectWitness ==
    /\ reconnectAttempts = maxReconnectAttempts
    /\ connects = maxReconnectAttempts + 1
    /\ ws = "closed"
    /\ reconnectQueue = << >>
    /\ ~disconnected

\* C24 - In useWebSocket, once disconnect() has been called no reconnect
\* timeout is armed and no connect() is started any more.
NoConnectAfterDisconnect ==
    [][(variant = "useWebSocket" /\ disconnected) =>
          /\ connects' = connects
          /\ Len(reconnectQueue') <= Len(reconnectQueue)]_vars

\* C25 - sendDanmaku puts a message on the socket only when the client is
\* authenticated and the socket is open, and returns false without sending
\* otherwise; the client is authenticated only on a socket that delivered
\* auth_success and has not closed, and every close event leaves it
\* unauthenticated.
SendNeedsAuthenticatedOpenSocket ==
    /\ [][\A content \in Inputs : sendDanmaku(content) =>
             /\ wire' = "danmaku" => (isAuthenticated /\ ws = "open")
             /\ ~(isAuthenticated /\ ws = "open") =>
                   (wire' = "none" /\ returned' = "false")
             /\ returned' = "true" <=> wire' = "danmaku"]_vars
    /\ [](isAuthenticated => (authReceived /\ ws \in {"open", "closing"}))
    /\ [][Closes => ~isAuthenticated']_vars

\* A comment was just sent on a reconnected socket after its auth_success.
SendWitness ==
    /\ returned = "true"
    /\ wire = "danmaku"
    /\ connects >= 2
    /\ authReceived
    /\ isAuthenticated

\* C26 - At most one heartbeat interval runs, the one heartbeatTimer names,
\* and only while the client is authenticated; auth_success leaves exactly
\* one running, a close event and disconnect() leave none.
SingleHeartbeat ==
    /\ [](/\ heartbeats <= 1
          /\ heartbeatTimer <=> heartbeats = 1
          /\ heartbeats > 0 => isAuthenticated)
    /\ [][handleMessage("auth_success") => heartbeats' = 1]_vars
    /\ [][(Closes \/ disconnect) => heartbeats' = 0]_vars

\* auth_success was just handled on a reconnected socket, after the
\* heartbeat of the earlier socket was stopped: one interval runs.
SingleHeartbeatWitness ==
    /\ heartbeats = 1
    /\ rendered
    /\ isAuthenticated
    /\ connects >= 2
    /\ heartbeatTimer

====
